---- MODULE Spec2Model ----
(***************************************************************************)
(* Model of the I/O capability probe of src/uv_os.c                        *)
(* (uvProbeIoCapabilities, probeDirectIO, probeAsyncIO and the UvOsIo*     *)
(* wrappers they call).  The probe is one sequential C function; the model *)
(* follows its control flow with a program counter and draws the outcome   *)
(* of every system call and allocator call from a small set.  Every call   *)
(* the probe makes is appended to `trace`, so that properties about which  *)
(* calls happened, how often and in what order can be stated.              *)
(***************************************************************************)
EXTENDS Integers, Sequences, FiniteSets, TLC

VARIABLES
    pc,        \* position in uvProbeIoCapabilities / probeDirectIO / probeAsyncIO
    probeDir,  \* the dir argument of uvProbeIoCapabilities, a sequence of characters
    rwfNowait, \* build: is RWF_NOWAIT defined (uv_os.c:291, 407)
    fdOpen,    \* the scratch descriptor is open
    linked,    \* the scratch file has a name in the directory
    direct,    \* *direct, which probeDirectIO writes through its `size` pointer
    async,     \* *async
    errmsg,    \* the values assigned to *errmsg, in order
    errno,     \* the thread's errno
    rv,        \* the rv local / return value of the helper that just returned
    ret,       \* the value uvProbeIoCapabilities returned
    fpos,      \* file offset of the scratch descriptor
    buf,       \* the live probe buffer (NULL when none)
    nalloc,    \* number of pointers handed out by the allocator so far
    ctxLive,   \* a KAIO context created by io_setup and not yet destroyed
    paSize,    \* probeAsyncIO's `size` parameter
    eventRes,  \* event.res of the fetched completion
    nEintr,    \* interruptions of io_getevents so far
    trace,     \* every system call and allocator slot call made, in order
    currentHeap, \* heap.c: the table currentHeap points to
    heapLog,   \* heap.c: the calls of the allocator API and the slots they invoked
    out,       \* the last call of UvOsJoin, uvReadFully or UvOsIoSubmit and its result
    ge         \* the call of UvOsIoGetevents in progress or just finished

\* the state of one run of uvProbeIoCapabilities
pvars == <<pc, probeDir, rwfNowait, fdOpen, linked, direct, async, errmsg,
           errno, rv, ret, fpos, buf, nalloc, ctxLive, paSize, eventRes, nEintr, trace>>

\* the state of the allocator indirection and of the wrappers called on their own
libvars == <<currentHeap, heapLog, out, ge>>

vars == <<pvars, libvars>>

----------------------------------------------------------------------------
(* Error numbers (Linux) and the return codes of uv_error.h used here.     *)
EINTR == 4
EIO == 5
EBADF == 9
EAGAIN == 11
ENOMEM == 12
EACCES == 13
EINVAL == 22
ENOSPC == 28
EOPNOTSUPP == 95
UV__ERROR == 1

TMPFS_MAGIC == 16914836    \* 0x01021994
ZFS_MAGIC == 801189825     \* 0x2fc12fc1
EXT4_MAGIC == 61267        \* 0xEF53, a file system the switch does not know
OVERLAYFS_MAGIC == 2035054128  \* 0x794c7630, another one

NULL == 0
ProbeFileSize == 4096      \* posix_fallocate(fd, 0, 4096)
FirstCandidate == 4096     \* *size = 4096
LastCandidate == 512       \* while (*size >= 512)

(* Bound: how many times io_getevents may be interrupted by a signal.      *)
MaxEintr == 2

(* Outcomes the environment may produce. *)
MkstempErrnos == {EACCES}
FallocateErrors == {ENOSPC, EOPNOTSUPP}
FcntlErrnos == {EINVAL, EBADF}
FstatfsErrnos == {ENOMEM}
FsTypes == {TMPFS_MAGIC, ZFS_MAGIC, EXT4_MAGIC, OVERLAYFS_MAGIC}
WriteErrnos == {EIO, EOPNOTSUPP, EINVAL, ENOSPC}
IoSetupErrnos == {ENOMEM}
IoSubmitErrnos == {EOPNOTSUPP, EAGAIN}
IoGeteventsErrnos == {EINVAL}
IoDestroyErrnos == {EINVAL}
UnlinkErrnos == {EIO}
EventResults(size) == {size, size \div 2, 0, -EAGAIN, -EIO}
UninitDirect == {0, 1}     \* what the caller's *direct may hold before the call

Call(c, a, b, r) == [call |-> c, arg |-> a, arg2 |-> b, res |-> r]

Last(s) == s[Len(s)]

Calls(c) == {i \in DOMAIN trace : trace[i].call = c}

Count(c) == Cardinality(Calls(c))

----------------------------------------------------------------------------
(* Bound: the longest directory name accepted (UV__DIR_LEN scaled down).   *)
MaxDirLen == 2

UV__DIR_HAS_VALID_LEN(dir) == Len(dir) <= MaxDirLen

\* the directory names the probe is called with: one of each length up to
\* one character past the limit
ProbeDirs == {[i \in 1..k |-> "a"] : k \in 1..(MaxDirLen + 1)}

----------------------------------------------------------------------------
Init ==
    /\ pc = "start"
    /\ probeDir \in ProbeDirs
    /\ rwfNowait \in BOOLEAN
    /\ fdOpen = FALSE
    /\ linked = FALSE
    /\ direct \in UninitDirect
    /\ async \in BOOLEAN
    /\ errmsg = <<>>
    /\ errno = 0
    /\ rv = 0
    /\ ret = 0
    /\ fpos = 0
    /\ buf = NULL
    /\ nalloc = 0
    /\ ctxLive = FALSE
    /\ paSize = 0
    /\ eventRes = 0
    /\ nEintr = 0
    /\ trace = <<>>
    /\ currentHeap = "defaultHeap"
    /\ heapLog = <<>>
    /\ out = [fn |-> "none"]
    /\ ge = [pc |-> "idle"]

Msg(what, code) == [what |-> what, code |-> code]

----------------------------------------------------------------------------
(* The allocator entry points of heap.c the probe uses.  Each appends the  *)
(* slot of the current heap it invokes to the trace.                       *)

\* raft_aligned_alloc: currentHeap->aligned_alloc(data, alignment, size) = p
raft_aligned_alloc(t, alignment, size, p) ==
    Append(t, Call("heap.aligned_alloc", alignment, size, p))

\* raft_aligned_free: currentHeap->aligned_free(data, alignment, ptr)
raft_aligned_free(t, alignment, ptr) ==
    Append(t, Call("heap.aligned_free", alignment, ptr, 0))

\* raft_free -> heapFree: no-op on NULL, else currentHeap->free(data, ptr).
\* free() leaves errno alone (POSIX.1-2024, glibc >= 2.33), so the callers'
\* tests of errno after raft_free see the errno of the failed system call.
raft_free(t, ptr) ==
    IF ptr = NULL THEN t ELSE Append(t, Call("heap.free", ptr, 0, 0))

(* The KAIO wrappers: a raw result of -1 with errno e becomes -e.          *)
UvOsIoSetup(e) == IF e # 0 THEN -e ELSE 0

UvOsIoDestroy(e) == IF e # 0 THEN -e ELSE 0

\* r is what io_submit returned: -e for (-1, errno e), else the accept count
UvOsIoSubmit(r) == IF r < 0 THEN r ELSE 0

\* mutant: the accept count is not checked
UvOsIoSubmitAssert_Missing(r, nr) == TRUE

\* assert(rv == nr), reached when rv is not -1
UvOsIoSubmitAssert(r, nr) == r < 0 \/ r = nr

----------------------------------------------------------------------------
(* Decisions of probeDirectIO and uvProbeIoCapabilities.                   *)

\* mutant: the ZFS case label is missing
KnownGoodFs_TmpfsOnly(t) == t = TMPFS_MAGIC

\* mutant: the default case falls into the known-good cases
KnownGoodFs_Any(t) == TRUE

\* switch (fs_info.f_type): the two cases that yield *size = 0
KnownGoodFs(t) == t \in {TMPFS_MAGIC, ZFS_MAGIC}

\* errno != EIO && errno != EOPNOTSUPP is the fatal branch
AcceptableWriteError(e) == e = EIO \/ e = EOPNOTSUPP

\* mutant: the workaround is missing
ShimQuirk_Never(e, size) == FALSE

\* mutant: the workaround applies at every candidate size
ShimQuirk_AnySize(e, size) == e = EINVAL

\* the shiftfs workaround
ShimQuirk(e, size) == e = EINVAL /\ size = FirstCandidate

\* mutant: the candidate size is divided by four
NextCandidate_Quarter(size) == size \div 4

\* *size = *size / 2
NextCandidate(size) == size \div 2

\* while (*size >= 512)
LoopContinues(size) == size >= LastCandidate

\* mutant: the branch for *direct == 0 forgets to store into *async
AsyncWhenNoDirect_Unset(a) == a

\* the value stored into *async when *direct == 0 (a = the caller's value)
AsyncWhenNoDirect(a) == FALSE

\* mutant: a completion that transferred nothing counts as a success
EventPositive_OrZero(res) == res >= 0

\* if (event.res > 0)
EventPositive(res) == res > 0

\* the value stored into *async when RWF_NOWAIT is not defined
AsyncWhenNoRwfNowait(a) == FALSE

----------------------------------------------------------------------------
(* uvProbeIoCapabilities, up to the call of probeDirectIO.                 *)

\* assert(UV__DIR_HAS_VALID_LEN(dir)): a longer name is an assertion fault
\* before any system call
AssertDir ==
    /\ UNCHANGED libvars
    /\ pc = "start"
    /\ pc' = IF UV__DIR_HAS_VALID_LEN(probeDir) THEN "mkstemp" ELSE "Abort"
    /\ UNCHANGED <<probeDir, rwfNowait, fdOpen, linked, direct, async, errmsg, errno, rv,
                   ret, fpos, buf, nalloc, ctxLive, paSize, eventRes, nEintr, trace>>

\* fd = mkstemp(path); e = 0 is success, otherwise the errno of the failure
Mkstemp ==
    /\ UNCHANGED <<probeDir, libvars>>
    /\ pc = "mkstemp"
    /\ \E e \in {0} \cup MkstempErrnos :
         /\ trace' = Append(trace, Call("mkstemp", 0, 0, IF e = 0 THEN 3 ELSE -e))
         /\ IF e = 0
              THEN /\ fdOpen' = TRUE
                   /\ linked' = TRUE
                   /\ pc' = "fallocate"
                   /\ UNCHANGED <<errno, errmsg, ret>>
              ELSE /\ errno' = e
                   /\ errmsg' = Append(errmsg, Msg("mkstemp", -e))
                   /\ ret' = UV__ERROR
                   /\ pc' = "Error"
                   /\ UNCHANGED <<fdOpen, linked>>
    /\ UNCHANGED <<rwfNowait, direct, async, rv, fpos, buf, nalloc, ctxLive,
                   paSize, eventRes, nEintr>>

\* rv = posix_fallocate(fd, 0, 4096); returns the error number, errno untouched
PosixFallocate ==
    /\ UNCHANGED <<probeDir, libvars>>
    /\ pc = "fallocate"
    /\ \E e \in {0} \cup FallocateErrors :
         /\ trace' = Append(trace, Call("posix_fallocate", 0, ProbeFileSize, e))
         /\ rv' = e
         /\ IF e = 0
              THEN /\ pc' = "unlink"
                   /\ UNCHANGED errmsg
              ELSE /\ errmsg' = Append(errmsg, Msg("posix_fallocate", -e))
                   /\ pc' = "err_after_file_open"
    /\ UNCHANGED <<rwfNowait, fdOpen, linked, direct, async, errno, ret, fpos,
                   buf, nalloc, ctxLive, paSize, eventRes, nEintr>>

\* unlink(path); the result is not looked at
Unlink ==
    /\ UNCHANGED <<probeDir, libvars>>
    /\ pc = "unlink"
    /\ \E e \in {0} \cup UnlinkErrnos :
         /\ trace' = Append(trace, Call("unlink", 0, 0, IF e = 0 THEN 0 ELSE -e))
         /\ linked' = (e # 0)
         /\ errno' = IF e = 0 THEN errno ELSE e
    /\ pc' = "pd_fcntl"
    /\ UNCHANGED <<rwfNowait, fdOpen, direct, async, errmsg, rv, ret, fpos, buf,
                   nalloc, ctxLive, paSize, eventRes, nEintr>>

----------------------------------------------------------------------------
(* probeDirectIO(fd, direct, errmsg).  Its `size` pointer is `direct`.      *)

\* flags = fcntl(fd, F_GETFL); rv = fcntl(fd, F_SETFL, flags | O_DIRECT)
PdFcntl ==
    /\ UNCHANGED <<probeDir, libvars>>
    /\ pc = "pd_fcntl"
    /\ \E e \in {0} \cup FcntlErrnos :
         /\ trace' = Append(trace, Call("fcntl", 0, 0, IF e = 0 THEN 0 ELSE -e))
         /\ IF e = 0
              THEN /\ direct' = FirstCandidate
                   /\ pc' = "pd_alloc"
                   /\ UNCHANGED <<errno, errmsg, rv>>
              ELSE /\ errno' = e
                   /\ UNCHANGED direct
                   /\ IF e # EINVAL
                        THEN /\ errmsg' = Append(errmsg, Msg("fnctl", -e))
                             /\ rv' = UV__ERROR
                             /\ pc' = "after_direct"
                        ELSE /\ pc' = "pd_fstatfs"
                             /\ UNCHANGED <<errmsg, rv>>
    /\ UNCHANGED <<rwfNowait, fdOpen, linked, async, ret, fpos, buf, nalloc,
                   ctxLive, paSize, eventRes, nEintr>>

\* rv = fstatfs(fd, &fs_info) and the switch on fs_info.f_type;
\* r is -e for a failure with errno e, else the f_type reported
PdFstatfs ==
    /\ UNCHANGED <<probeDir, libvars>>
    /\ pc = "pd_fstatfs"
    /\ \E r \in FsTypes \cup {-e : e \in FstatfsErrnos} :
         /\ trace' = Append(trace, Call("fstatfs", 0, 0, r))
         /\ IF r < 0
              THEN /\ errno' = -r
                   /\ errmsg' = Append(errmsg, Msg("fstatfs", r))
                   /\ rv' = UV__ERROR
                   /\ UNCHANGED direct
              ELSE /\ UNCHANGED errno
                   /\ IF KnownGoodFs(r)
                        THEN /\ direct' = 0
                             /\ rv' = 0
                             /\ UNCHANGED errmsg
                        ELSE /\ errmsg' = Append(errmsg, Msg("unsupported file system", r))
                             /\ rv' = UV__ERROR
                             /\ UNCHANGED direct
    /\ pc' = "after_direct"
    /\ UNCHANGED <<rwfNowait, fdOpen, linked, async, ret, fpos, buf, nalloc,
                   ctxLive, paSize, eventRes, nEintr>>

\* buf = raft_aligned_alloc(*size, *size), at the top of the loop body
PdAlloc ==
    /\ UNCHANGED <<probeDir, libvars>>
    /\ pc = "pd_alloc"
    /\ \E p \in {NULL, nalloc + 1} :
         /\ trace' = raft_aligned_alloc(trace, direct, direct, p)
         /\ IF p = NULL
              THEN /\ errno' = ENOMEM
                   /\ errmsg' = Append(errmsg, Msg("can't allocate write buffer", 0))
                   /\ rv' = UV__ERROR
                   /\ pc' = "after_direct"
                   /\ UNCHANGED <<buf, nalloc>>
              ELSE /\ buf' = p
                   /\ nalloc' = nalloc + 1
                   /\ pc' = "pd_write"
                   /\ UNCHANGED <<errno, errmsg, rv>>
    /\ UNCHANGED <<rwfNowait, fdOpen, linked, direct, async, ret, fpos, ctxLive,
                   paSize, eventRes, nEintr>>

\* what write(fd, buf, size) may return: all of it, part of it, nothing, or
\* -e for a failure with errno e
WriteResults(size) == {size, size \div 2, 0} \cup {-e : e \in WriteErrnos}

\* memset; rv = write(fd, buf, *size); raft_free(buf); and the rest of the
\* loop body, the loop condition and the fall-through after the loop
PdWrite ==
    /\ UNCHANGED <<probeDir, libvars>>
    /\ pc = "pd_write"
    /\ \E r \in WriteResults(direct) :
         /\ trace' = raft_free(Append(trace, Call("write", direct, fpos, r)), buf)
         /\ buf' = NULL
         /\ fpos' = IF r > 0 THEN fpos + r ELSE fpos
         /\ errno' = IF r < 0 THEN -r ELSE errno
         /\ IF r > 0
              THEN \* assert(rv == (int)(*size)); return 0
                   /\ pc' = IF r = direct THEN "after_direct" ELSE "Abort"
                   /\ rv' = IF r = direct THEN 0 ELSE rv
                   /\ UNCHANGED <<direct, errmsg>>
              ELSE IF r = 0
              THEN \* assert(rv == -1)
                   /\ pc' = "Abort"
                   /\ UNCHANGED <<direct, errmsg, rv>>
              ELSE IF ~AcceptableWriteError(-r)
              THEN IF ShimQuirk(-r, direct)
                     THEN /\ direct' = 0
                          /\ rv' = 0
                          /\ pc' = "after_direct"
                          /\ UNCHANGED errmsg
                     ELSE /\ errmsg' = Append(errmsg, Msg("write", r))
                          /\ rv' = UV__ERROR
                          /\ pc' = "after_direct"
                          /\ UNCHANGED direct
              ELSE /\ UNCHANGED errmsg
                   /\ IF LoopContinues(NextCandidate(direct))
                        THEN /\ direct' = NextCandidate(direct)
                             /\ pc' = "pd_alloc"
                             /\ UNCHANGED rv
                        ELSE \* the loop ends: *size = 0; return 0
                             /\ direct' = 0
                             /\ rv' = 0
                             /\ pc' = "after_direct"
    /\ UNCHANGED <<rwfNowait, fdOpen, linked, async, ret, nalloc, ctxLive,
                   paSize, eventRes, nEintr>>

----------------------------------------------------------------------------
(* uvProbeIoCapabilities, after probeDirectIO returned into rv.            *)

\* if (rv != 0) goto err_after_file_open; then the #if on RWF_NOWAIT and
\* the test of *direct, up to the call of probeAsyncIO(fd, *direct, ...)
AfterProbeDirectIO ==
    /\ UNCHANGED <<probeDir, libvars>>
    /\ pc = "after_direct"
    /\ IF rv # 0
         THEN /\ pc' = "err_after_file_open"
              /\ UNCHANGED <<async, paSize>>
         ELSE IF ~rwfNowait
         THEN /\ async' = AsyncWhenNoRwfNowait(async)
              /\ pc' = "out"
              /\ UNCHANGED paSize
         ELSE IF direct = 0
         THEN /\ async' = AsyncWhenNoDirect(async)
              /\ pc' = "out"
              /\ UNCHANGED paSize
         ELSE /\ paSize' = direct
              /\ pc' = "pa_setup"
              /\ UNCHANGED async
    /\ UNCHANGED <<rwfNowait, fdOpen, linked, direct, errmsg, errno, rv, ret,
                   fpos, buf, nalloc, ctxLive, eventRes, nEintr, trace>>

\* out: close(fd); return 0
Out ==
    /\ UNCHANGED <<probeDir, libvars>>
    /\ pc = "out"
    /\ trace' = Append(trace, Call("close", 0, 0, 0))
    /\ fdOpen' = FALSE
    /\ ret' = 0
    /\ pc' = "Done"
    /\ UNCHANGED <<rwfNowait, linked, direct, async, errmsg, errno, rv, fpos,
                   buf, nalloc, ctxLive, paSize, eventRes, nEintr>>

\* mutant: err_after_file_open returns without closing the descriptor
ErrAfterFileOpen_NoClose ==
    /\ UNCHANGED <<probeDir, libvars>>
    /\ pc = "err_after_file_open"
    /\ ret' = UV__ERROR
    /\ pc' = "Error"
    /\ UNCHANGED <<rwfNowait, fdOpen, linked, direct, async, errmsg, errno, rv, fpos,
                   buf, nalloc, ctxLive, paSize, eventRes, nEintr, trace>>

\* mutant: err_after_file_open passes the helper's return value through
ErrAfterFileOpen_ReturnsRv ==
    /\ UNCHANGED <<probeDir, libvars>>
    /\ pc = "err_after_file_open"
    /\ trace' = Append(trace, Call("close", 0, 0, 0))
    /\ fdOpen' = FALSE
    /\ ret' = rv
    /\ pc' = "Error"
    /\ UNCHANGED <<rwfNowait, linked, direct, async, errmsg, errno, rv, fpos,
                   buf, nalloc, ctxLive, paSize, eventRes, nEintr>>

\* err_after_file_open: close(fd); err: return UV__ERROR
ErrAfterFileOpen ==
    /\ UNCHANGED <<probeDir, libvars>>
    /\ pc = "err_after_file_open"
    /\ trace' = Append(trace, Call("close", 0, 0, 0))
    /\ fdOpen' = FALSE
    /\ ret' = UV__ERROR
    /\ pc' = "Error"
    /\ UNCHANGED <<rwfNowait, linked, direct, async, errmsg, errno, rv, fpos,
                   buf, nalloc, ctxLive, paSize, eventRes, nEintr>>

----------------------------------------------------------------------------
(* probeAsyncIO(fd, size, ok, errmsg), with size = paSize and ok = async.   *)

\* rv = UvOsIoSetup(1, &ctx); e = 0 is success, otherwise io_setup's errno
PaIoSetup ==
    /\ UNCHANGED <<probeDir, libvars>>
    /\ pc = "pa_setup"
    /\ \E e \in {0} \cup IoSetupErrnos :
         /\ trace' = Append(trace, Call("io_setup", 1, 0, UvOsIoSetup(e)))
         /\ IF UvOsIoSetup(e) # 0
              THEN /\ errno' = e
                   /\ errmsg' = Append(errmsg, Msg("io_setup", UvOsIoSetup(e)))
                   /\ rv' = UvOsIoSetup(e)
                   /\ pc' = "after_async"
                   /\ UNCHANGED ctxLive
              ELSE /\ ctxLive' = TRUE
                   /\ pc' = "pa_alloc"
                   /\ UNCHANGED <<errno, errmsg, rv>>
    /\ UNCHANGED <<rwfNowait, fdOpen, linked, direct, async, ret, fpos, buf,
                   nalloc, paSize, eventRes, nEintr>>

\* buf = raft_aligned_alloc(size, size); on NULL the function returns at once
PaAlloc ==
    /\ UNCHANGED <<probeDir, libvars>>
    /\ pc = "pa_alloc"
    /\ \E p \in {NULL, nalloc + 1} :
         /\ trace' = raft_aligned_alloc(trace, paSize, paSize, p)
         /\ IF p = NULL
              THEN /\ errno' = ENOMEM
                   /\ errmsg' = Append(errmsg, Msg("can't allocate write buffer", 0))
                   /\ rv' = UV__ERROR
                   /\ pc' = "after_async"
                   /\ UNCHANGED <<buf, nalloc>>
              ELSE /\ buf' = p
                   /\ nalloc' = nalloc + 1
                   /\ pc' = "pa_submit"
                   /\ UNCHANGED <<errno, errmsg, rv>>
    /\ UNCHANGED <<rwfNowait, fdOpen, linked, direct, async, ret, fpos, ctxLive,
                   paSize, eventRes, nEintr>>

\* what io_submit(ctx, 1, &iocbs) may return: 1 request accepted, none, or
\* -e for a failure with errno e
IoSubmitResults == {1, 0} \cup {-e : e \in IoSubmitErrnos}

\* the iocb (aio_nbytes = size, aio_offset = 0) and rv = UvOsIoSubmit(ctx, 1, &iocbs)
PaIoSubmit ==
    /\ UNCHANGED <<probeDir, libvars>>
    /\ pc = "pa_submit"
    /\ \E r \in IoSubmitResults :
         /\ trace' = Append(trace, Call("io_submit", paSize, 0, r))
         /\ errno' = IF r < 0 THEN -r ELSE errno
         /\ IF ~UvOsIoSubmitAssert(r, 1)
              THEN /\ pc' = "Abort"
                   /\ UNCHANGED rv
              ELSE /\ rv' = UvOsIoSubmit(r)
                   /\ pc' = IF UvOsIoSubmit(r) # 0 THEN "pa_submit_failed"
                                                   ELSE "pa_getevents"
    /\ UNCHANGED <<rwfNowait, fdOpen, linked, direct, async, errmsg, ret, fpos,
                   buf, nalloc, ctxLive, paSize, eventRes, nEintr>>

\* if (rv != 0) { raft_free(buf); UvOsIoDestroy(ctx); if (errno == EOPNOTSUPP) ... }
\* d = 0 when io_destroy succeeds, otherwise its errno
PaSubmitFailed ==
    /\ UNCHANGED <<probeDir, libvars>>
    /\ pc = "pa_submit_failed"
    /\ \E d \in {0} \cup IoDestroyErrnos :
         /\ trace' = Append(raft_free(trace, buf), Call("io_destroy", 0, 0, UvOsIoDestroy(d)))
         /\ buf' = NULL
         /\ ctxLive' = (d # 0)
         /\ errno' = IF d # 0 THEN d ELSE errno
         /\ IF errno' = EOPNOTSUPP
              THEN /\ async' = FALSE
                   /\ rv' = 0
                   /\ UNCHANGED errmsg
              ELSE /\ errmsg' = Append(errmsg, Msg("can't allocate write buffer", 0))
                   /\ UNCHANGED <<async, rv>>
    /\ pc' = "after_async"
    /\ UNCHANGED <<rwfNowait, fdOpen, linked, direct, ret, fpos, nalloc, paSize,
                   eventRes, nEintr>>

\* n_events = UvOsIoGetevents(ctx, 1, 1, &event, NULL); assert(n_events == 1).
\* One step is one io_getevents call of the wrapper's do-while loop.
PaIoGetevents ==
    /\ UNCHANGED <<probeDir, libvars>>
    /\ pc = "pa_getevents"
    /\ \/ \* interrupted by a signal: the wrapper calls io_getevents again
          /\ nEintr < MaxEintr
          /\ trace' = Append(trace, Call("io_getevents", 1, 1, -EINTR))
          /\ nEintr' = nEintr + 1
          /\ errno' = EINTR
          /\ UNCHANGED <<pc, eventRes>>
       \/ \* a failure other than EINTR: the wrapper returns -errno, the assert trips
          \E e \in IoGeteventsErrnos :
            /\ trace' = Append(trace, Call("io_getevents", 1, 1, -e))
            /\ errno' = e
            /\ pc' = "Abort"
            /\ UNCHANGED <<nEintr, eventRes>>
       \/ \* one completion fetched
          \E res \in EventResults(paSize) :
            /\ trace' = Append(trace, Call("io_getevents", 1, 1, 1))
            /\ eventRes' = res
            /\ pc' = "pa_release"
            /\ UNCHANGED <<nEintr, errno>>
    /\ UNCHANGED <<rwfNowait, fdOpen, linked, direct, async, errmsg, rv, ret,
                   fpos, buf, nalloc, ctxLive, paSize>>

\* raft_free(buf); rv = UvOsIoDestroy(ctx); and the test of event.res
PaRelease ==
    /\ UNCHANGED <<probeDir, libvars>>
    /\ pc = "pa_release"
    /\ \E d \in {0} \cup IoDestroyErrnos :
         /\ trace' = Append(raft_free(trace, buf), Call("io_destroy", 0, 0, UvOsIoDestroy(d)))
         /\ buf' = NULL
         /\ ctxLive' = (d # 0)
         /\ errno' = IF d # 0 THEN d ELSE errno
         /\ IF UvOsIoDestroy(d) # 0
              THEN /\ errmsg' = Append(errmsg, Msg("io_destroy", UvOsIoDestroy(d)))
                   /\ rv' = UvOsIoDestroy(d)
                   /\ pc' = "after_async"
                   /\ UNCHANGED async
              ELSE IF EventPositive(eventRes)
              THEN \* assert(event.res == (int)size); *ok = true
                   /\ pc' = IF eventRes = paSize THEN "after_async" ELSE "Abort"
                   /\ async' = IF eventRes = paSize THEN TRUE ELSE async
                   /\ rv' = 0
                   /\ UNCHANGED errmsg
              ELSE \* assert(event.res != EAGAIN) cannot trip here; *ok = false
                   /\ async' = FALSE
                   /\ rv' = 0
                   /\ pc' = "after_async"
                   /\ UNCHANGED errmsg
    /\ UNCHANGED <<rwfNowait, fdOpen, linked, direct, ret, fpos, nalloc, paSize,
                   eventRes, nEintr>>

\* back in uvProbeIoCapabilities: if (rv != 0) goto err_after_file_open; out:
AfterProbeAsyncIO ==
    /\ UNCHANGED <<probeDir, libvars>>
    /\ pc = "after_async"
    /\ pc' = IF rv # 0 THEN "err_after_file_open" ELSE "out"
    /\ UNCHANGED <<rwfNowait, fdOpen, linked, direct, async, errmsg, errno, rv,
                   ret, fpos, buf, nalloc, ctxLive, paSize, eventRes, nEintr, trace>>

----------------------------------------------------------------------------
Next ==
    \/ AssertDir
    \/ Mkstemp
    \/ PosixFallocate
    \/ Unlink
    \/ PdFcntl
    \/ PdFstatfs
    \/ PdAlloc
    \/ PdWrite
    \/ AfterProbeDirectIO
    \/ PaIoSetup
    \/ PaAlloc
    \/ PaIoSubmit
    \/ PaSubmitFailed
    \/ PaIoGetevents
    \/ PaRelease
    \/ AfterProbeAsyncIO
    \/ Out
    \/ ErrAfterFileOpen

Spec == Init /\ [][Next]_vars

Returned == pc \in {"Done", "Error"}

TypeOK ==
    /\ probeDir \in ProbeDirs \cup {<<>>}
    /\ pc \in {"start", "mkstemp", "fallocate", "unlink", "pd_fcntl", "pd_fstatfs", "pd_alloc",
               "pd_write", "after_direct", "pa_setup", "pa_alloc", "pa_submit",
               "pa_submit_failed", "pa_getevents", "pa_release", "after_async",
               "out", "err_after_file_open", "Done", "Error", "Abort"}
    /\ rwfNowait \in BOOLEAN /\ fdOpen \in BOOLEAN /\ linked \in BOOLEAN
    /\ async \in BOOLEAN /\ ctxLive \in BOOLEAN
    /\ direct \in Nat /\ fpos \in Nat /\ buf \in Nat /\ nalloc \in Nat
    /\ ret \in {0, UV__ERROR}
    /\ nEintr \in 0..MaxEintr

----------------------------------------------------------------------------
(* Vocabulary for the properties.                                          *)

Has(c, r) == \E i \in DOMAIN trace : trace[i].call = c /\ trace[i].res = r

MkstempOk == Has("mkstemp", 3)

Writes == SelectSeq(trace, LAMBDA x : x.call = "write")

Candidates == <<4096, 2048, 1024, 512>>

SoftWriteFailure(r) == r = -EIO \/ r = -EOPNOTSUPP

\* the async probe has been entered: control is inside or past probeAsyncIO
AsyncProbeEntered ==
    \/ pc \in {"pa_setup", "pa_alloc", "pa_submit", "pa_submit_failed",
               "pa_getevents", "pa_release", "after_async"}
    \/ Count("io_setup") > 0

\* the allocations made by probeAsyncIO: those after the io_setup call
AsyncAllocs ==
    {i \in Calls("heap.aligned_alloc") : \E j \in Calls("io_setup") : j < i}

----------------------------------------------------------------------------
(* C1: whenever the probe returns success with *direct = 0, *async is     *)
(* false; the async probe is entered only after probeDirectIO returned a   *)
(* non-zero block size, and its buffer has exactly that size (and that     *)
(* alignment).                                                             *)
C1_AsyncOnlyWithDirect ==
    /\ (pc = "Done" /\ direct = 0) => (async = FALSE)
    /\ AsyncProbeEntered =>
         /\ direct > 0
         /\ rv = 0 \/ Count("io_setup") > 0
         /\ paSize = direct
         /\ Has("write", direct)
    /\ \A i \in AsyncAllocs : trace[i].arg = direct /\ trace[i].arg2 = direct

C1_Witness ==
    /\ pc = "Done" /\ direct = 0 /\ async = FALSE
    /\ rwfNowait /\ Has("fcntl", 0) /\ Len(Writes) = 4

C1_WitnessAsyncBuffer ==
    /\ pc = "Done" /\ direct = 1024 /\ AsyncAllocs # {} /\ async

----------------------------------------------------------------------------
(* C2: once O_DIRECT is enabled, probeDirectIO tries 4096, 2048, 1024, 512 *)
(* in that order and stops at the first write that succeeds: every write   *)
(* before the last one failed with EIO or EOPNOTSUPP, a successful write   *)
(* is the last one and its size is the block size reported, a successful   *)
(* probe reports a size in {0, 512, 1024, 2048, 4096}, and four soft       *)
(* failures give block size 0 with the probe succeeding.                   *)
C2_CandidateOrder ==
    /\ Writes # <<>> => Has("fcntl", 0)
    /\ Len(Writes) <= Len(Candidates)
    /\ \A k \in DOMAIN Writes :
         /\ Writes[k].arg = Candidates[k]
         /\ k < Len(Writes) => SoftWriteFailure(Writes[k].res)
    /\ (pc \in {"after_direct", "out", "pa_setup"} /\ rv = 0 /\ Has("fcntl", 0)) =>
         /\ direct \in {0, 512, 1024, 2048, 4096}
         /\ Last(Writes).res > 0 => direct = Last(Writes).arg
         /\ Last(Writes).res < 0 => direct = 0
    /\ (pc = "Done" /\ Has("fcntl", 0)) =>
         /\ direct \in {0, 512, 1024, 2048, 4096}
         /\ Last(Writes).res > 0 => direct = Last(Writes).arg
    /\ (Len(Writes) = 4 /\ \A k \in 1..4 : SoftWriteFailure(Writes[k].res)) =>
         /\ pc \in {"after_direct", "out", "Done"}
         /\ direct = 0 /\ rv = 0 /\ errmsg = <<>>
         /\ pc = "Done" => ret = 0

C2_Witness ==
    /\ pc = "Done" /\ ret = 0 /\ direct = 1024
    /\ Len(Writes) = 3 /\ Writes[1].res = -EIO /\ Writes[2].res = -EOPNOTSUPP

C2_WitnessAllFail ==
    /\ pc = "Done" /\ ret = 0 /\ direct = 0
    /\ Len(Writes) = 4 /\ \A k \in 1..4 : SoftWriteFailure(Writes[k].res)

----------------------------------------------------------------------------
(* C3: if the probe write of 4096 bytes fails with EINVAL, the probe       *)
(* returns success with block size 0 and async false, no error message     *)
(* having been set, and no smaller size or async probe is tried.           *)
C3_EinvalAt4096 ==
    (\E k \in DOMAIN Writes : Writes[k].arg = 4096 /\ Writes[k].res = -EINVAL) =>
        /\ pc \in {"after_direct", "out", "Done"}
        /\ direct = 0 /\ rv = 0 /\ errmsg = <<>>
        /\ Len(Writes) = 1 /\ ~AsyncProbeEntered
        /\ pc = "Done" => (ret = 0 /\ async = FALSE)

C3_Witness ==
    /\ pc = "Done" /\ Len(Writes) = 1
    /\ Writes[1].arg = 4096 /\ Writes[1].res = -EINVAL /\ rwfNowait

----------------------------------------------------------------------------
(* C4: a probe write failing with an error other than EIO or EOPNOTSUPP is *)
(* fatal: it is the last write, the probe returns UV__ERROR with the       *)
(* "write" message and never enters the async probe.  The one exception is *)
(* EINVAL at size 4096; EINVAL at 2048, 1024 or 512 is fatal too.          *)
C4_OtherWriteErrorsFatal ==
    \A k \in DOMAIN Writes :
        LET w == Writes[k] IN
        (w.res < 0 /\ ~SoftWriteFailure(w.res)
           /\ ~(w.res = -EINVAL /\ w.arg = 4096)) =>
            /\ k = Len(Writes)
            /\ pc \in {"after_direct", "err_after_file_open", "Error"}
            /\ rv = UV__ERROR
            /\ errmsg = <<Msg("write", w.res)>>
            /\ direct = w.arg
            /\ pc = "Error" => ret = UV__ERROR

C4_Witness ==
    /\ pc = "Error" /\ Len(Writes) = 2
    /\ Writes[1].res = -EIO /\ Writes[2].arg = 2048 /\ Writes[2].res = -EINVAL

C4_WitnessEnospc ==
    /\ pc = "Error" /\ Len(Writes) = 1 /\ Writes[1].res = -ENOSPC

----------------------------------------------------------------------------
(* What fstatfs reported after fcntl failed with EINVAL, if it was called. *)
FsTypeSeen(t) == Has("fcntl", -EINVAL) /\ Has("fstatfs", t)

(* C5: if enabling O_DIRECT fails with EINVAL and fstatfs reports the      *)
(* tmpfs or the ZFS magic, the probe returns success with block size 0 and *)
(* async false, having made no probe write, no allocation and no KAIO call.*)
C5_TmpfsZfsNoDirect ==
    (FsTypeSeen(TMPFS_MAGIC) \/ FsTypeSeen(ZFS_MAGIC)) =>
        /\ pc \in {"after_direct", "out", "Done"}
        /\ direct = 0 /\ rv = 0 /\ errmsg = <<>>
        /\ Writes = <<>>
        /\ Count("heap.aligned_alloc") = 0
        /\ Count("io_setup") = 0 /\ Count("io_submit") = 0
        /\ ~AsyncProbeEntered
        /\ pc = "Done" => (ret = 0 /\ async = FALSE)

C5_Witness ==
    /\ pc = "Done" /\ FsTypeSeen(ZFS_MAGIC) /\ rwfNowait /\ direct = 0

C5_WitnessTmpfs ==
    /\ pc = "Done" /\ FsTypeSeen(TMPFS_MAGIC) /\ direct = 0

----------------------------------------------------------------------------
UnknownFsSeen == \E t \in FsTypes : ~(t \in {TMPFS_MAGIC, ZFS_MAGIC}) /\ FsTypeSeen(t)

(* C6, as claimed: on an unrecognized file system type the probe returns   *)
(* an error whose code differs from the generic UV__ERROR (and never       *)
(* success).                                                               *)
C6_Original_DistinctErrorKind ==
    (UnknownFsSeen /\ Returned) => (pc = "Error" /\ ret # 0 /\ ret # UV__ERROR)

(* What the code does: on an unrecognized file system type the probe never *)
(* returns success; it returns the generic UV__ERROR, the same code as for *)
(* a failed fstatfs or write, and the only thing that tells the case apart *)
(* is the message "unsupported file system: <f_type>", the one message     *)
(* set.  No probe write is made.                                           *)
C6_UnsupportedFsIsGenericError ==
    \A t \in FsTypes \ {TMPFS_MAGIC, ZFS_MAGIC} :
        FsTypeSeen(t) =>
            /\ pc \in {"after_direct", "err_after_file_open", "Error"}
            /\ rv = UV__ERROR
            /\ errmsg = <<Msg("unsupported file system", t)>>
            /\ Writes = <<>> /\ ~AsyncProbeEntered
            /\ pc = "Error" => ret = UV__ERROR

C6_Witness ==
    /\ pc = "Error" /\ FsTypeSeen(EXT4_MAGIC) /\ ret = UV__ERROR

----------------------------------------------------------------------------
(* C7: on every return of the probe after the scratch file was created,    *)
(* the file has no name left in the directory.                             *)
C7_ScratchFileUnlinked ==
    (Returned /\ MkstempOk) => ~linked

(* The paths on which the code does remove the name: unlink was reached    *)
(* and succeeded.                                                          *)
C7_UnlinkedWhenUnlinkSucceeded ==
    (MkstempOk /\ Has("unlink", 0)) => ~linked

----------------------------------------------------------------------------
(* C8: the scratch descriptor is closed exactly once on every return of    *)
(* the probe on which mkstemp succeeded, never more than once at any       *)
(* point, and never when mkstemp failed.                                   *)
C8_ClosedExactlyOnce ==
    /\ Count("close") <= 1
    /\ Count("close") = 1 => (MkstempOk /\ Returned /\ Last(trace).call = "close")
    /\ Returned => /\ ~fdOpen
                   /\ Count("close") = IF MkstempOk THEN 1 ELSE 0

C8_Witness ==
    /\ pc = "Error" /\ MkstempOk /\ Count("close") = 1
    /\ Has("posix_fallocate", ENOSPC)

C8_WitnessMkstempFailed ==
    /\ pc = "Error" /\ ~MkstempOk /\ Count("close") = 0

C8_WitnessDone ==
    /\ pc = "Done" /\ Count("close") = 1 /\ async

----------------------------------------------------------------------------
\* control has left probeAsyncIO
AsyncProbeReturned ==
    pc \in {"after_async", "out", "err_after_file_open", "Done", "Error"}

(* C9: once io_setup succeeded, the context is destroyed exactly once      *)
(* before probeAsyncIO returns, on every path.                             *)
C9_ContextDestroyedOnce ==
    (AsyncProbeReturned /\ Has("io_setup", 0)) => Count("io_destroy") = 1

(* The paths on which exactly one io_destroy call is made: those on which  *)
(* the write buffer was allocated.                                         *)
C9_DestroyCalledOnceAfterAlloc ==
    /\ Count("io_destroy") <= 1
    /\ (AsyncProbeReturned /\ Has("io_setup", 0) /\ AsyncAllocs # {}
          /\ \A i \in AsyncAllocs : trace[i].res # NULL)
         => Count("io_destroy") = 1

----------------------------------------------------------------------------
\* the releases of pointer p through slot c
Releases(c, p) ==
    {i \in Calls(c) : IF c = "heap.free" THEN trace[i].arg = p ELSE trace[i].arg2 = p}

(* C10: every buffer obtained through the aligned_alloc slot is released   *)
(* exactly once by the time the probe returns, through the aligned_free    *)
(* slot and never through the plain free slot.                             *)
C10_AlignedBuffersFreedAligned ==
    \A i \in Calls("heap.aligned_alloc") :
        trace[i].res # NULL =>
            /\ Releases("heap.free", trace[i].res) = {}
            /\ Returned => Cardinality(Releases("heap.aligned_free", trace[i].res)) = 1

(* What the code does: each buffer is released exactly once, through the   *)
(* plain free slot.                                                        *)
C10_BuffersFreedOnceViaFree ==
    \A i \in Calls("heap.aligned_alloc") :
        trace[i].res # NULL =>
            /\ Releases("heap.aligned_free", trace[i].res) = {}
            /\ Cardinality(Releases("heap.free", trace[i].res)) <= 1
            /\ (Returned \/ buf # trace[i].res) =>
                   Cardinality(Releases("heap.free", trace[i].res)) = 1

----------------------------------------------------------------------------
(* C12, as claimed: if io_submit fails with EOPNOTSUPP the probe returns   *)
(* success with async = false and the block size already found, whatever   *)
(* io_destroy returns before errno is tested.                              *)
C12_SubmitEopnotsuppIsSuccess ==
    (Returned /\ Has("io_submit", -EOPNOTSUPP)) =>
        (pc = "Done" /\ ret = 0 /\ async = FALSE /\ direct = paSize /\ errmsg = <<>>)

(* What the code does: the outcome depends on errno after UvOsIoDestroy,   *)
(* so EOPNOTSUPP is a success only when io_destroy did not fail.           *)
C12_SuccessOnlyIfDestroySucceeds ==
    (Returned /\ Has("io_submit", -EOPNOTSUPP)) =>
        IF Has("io_destroy", 0)
          THEN pc = "Done" /\ ret = 0 /\ async = FALSE /\ direct = paSize
          ELSE pc = "Error" /\ ret = UV__ERROR /\ errno # EOPNOTSUPP

----------------------------------------------------------------------------
\* the probe write was submitted and its completion fetched and released
CompletionHandled ==
    /\ Has("io_submit", 1) /\ Has("io_getevents", 1)
    /\ Count("io_destroy") = 1

(* C13: after a successful submit, async is reported true exactly when the *)
(* completion's result is positive, and then the result equals the buffer  *)
(* size; a non-positive result gives async = false and no error: the only  *)
(* error after a fetched completion is a failed io_destroy.                *)
C13_AsyncIffPositiveResult ==
    CompletionHandled =>
        /\ Has("io_destroy", 0) /\ eventRes <= 0 =>
              /\ pc \in {"after_async", "out", "Done"}
              /\ async = FALSE /\ rv = 0 /\ errmsg = <<>>
        /\ Has("io_destroy", 0) /\ eventRes > 0 /\ pc # "Abort" =>
              /\ pc \in {"after_async", "out", "Done"}
              /\ async = TRUE /\ eventRes = paSize /\ rv = 0 /\ errmsg = <<>>
        /\ pc = "Done" => (async <=> eventRes > 0)
        /\ pc \in {"err_after_file_open", "Error"} =>
              /\ ~Has("io_destroy", 0)
              /\ errmsg = <<Msg("io_destroy", rv)>>
        /\ pc = "Abort" => (eventRes > 0 /\ eventRes # paSize)

C13_Witness ==
    /\ pc = "Done" /\ CompletionHandled /\ eventRes = -EAGAIN /\ async = FALSE

C13_WitnessTrue ==
    /\ pc = "Done" /\ CompletionHandled /\ eventRes = 2048 /\ async = TRUE

C13_WitnessZero ==
    /\ pc = "Done" /\ CompletionHandled /\ eventRes = 0 /\ async = FALSE

----------------------------------------------------------------------------
\* an outcome the assertions of the probe rule out: a short or empty probe
\* write, a submit accepting nothing, a completion of part of the buffer
OutcomeOutsideContract ==
    \/ \E k \in DOMAIN Writes : Writes[k].res >= 0 /\ Writes[k].res # Writes[k].arg
    \/ Has("io_submit", 0)
    \/ (Has("io_getevents", 1) /\ eventRes > 0 /\ eventRes # paSize)

\* an input the entry assertion rules out: a directory name over the limit
DirTooLong == ~UV__DIR_HAS_VALID_LEN(probeDir)

(* C18: for a directory name within the limit, whatever the system calls   *)
(* and the allocator return (writes being full-size or failing, io_submit  *)
(* accepting all or failing), the probe returns success or an error        *)
(* without tripping an assertion; a failure of io_getevents other than     *)
(* EINTR is reported as a probe error.                                     *)
C18_NoAssertionFault ==
    /\ pc = "Abort" => (OutcomeOutsideContract \/ DirTooLong)
    /\ \A e \in IoGeteventsErrnos :
         Has("io_getevents", -e) => pc \in {"after_async", "err_after_file_open", "Error"}

(* What the code does: the only assertion faults within those outcomes are *)
(* the ones after a failed io_getevents; a directory name over the limit   *)
(* faults before any system call.                                          *)
C18_OnlyGeteventsFailureFaults ==
    /\ (pc = "Abort" /\ DirTooLong) => trace = <<>>
    /\ (pc = "Abort" /\ ~OutcomeOutsideContract /\ ~DirTooLong) =>
        \E e \in IoGeteventsErrnos : Last(trace) = Call("io_getevents", 1, 1, -e)

----------------------------------------------------------------------------
(* C19: the probe returns only 0 or UV__ERROR, never a negative errno of   *)
(* probeAsyncIO; when it returns UV__ERROR *errmsg has been assigned       *)
(* exactly once, and when it returns 0 *errmsg has never been assigned.    *)
C19_ReturnCodeAndErrmsg ==
    /\ Len(errmsg) <= 1
    /\ Returned =>
         /\ ret \in {0, UV__ERROR}
         /\ (pc = "Error") <=> (ret = UV__ERROR)
         /\ ret = UV__ERROR => Len(errmsg) = 1
         /\ ret = 0 => errmsg = <<>>

C19_Witness ==
    /\ pc = "Error" /\ ret = UV__ERROR /\ rv = -ENOMEM
    /\ errmsg = <<Msg("io_setup", -ENOMEM)>>

C19_WitnessSubmitFailed ==
    /\ pc = "Error" /\ ret = UV__ERROR /\ rv = -EAGAIN /\ Len(errmsg) = 1

C19_WitnessEopnotsupp ==
    /\ pc = "Done" /\ ret = 0 /\ Has("io_submit", -EOPNOTSUPP) /\ errmsg = <<>>

----------------------------------------------------------------------------
(* The probe with every step it can take eventually taken: each system     *)
(* call returns and the thread keeps running.                              *)
SpecFair == Spec /\ WF_vars(Next)

\* the io_getevents calls that were not interrupted: the waits that ended
WaitsEnded == {i \in Calls("io_getevents") : trace[i].res # -EINTR}

(* C20: every run of the probe reaches Done or Error (inputs and outcomes  *)
(* the assertions rule out aside); at most 4 probe writes are issued, at most  *)
(* one submit and one wait, and every write lies within the first 4096     *)
(* bytes of the scratch file.                                              *)
C20_ProbeTerminates ==
    /\ <>(pc \in {"Done", "Error"} \/ OutcomeOutsideContract \/ DirTooLong)
    /\ [](/\ Len(Writes) <= 4
          /\ Count("io_submit") <= 1
          /\ Cardinality(WaitsEnded) <= 1
          /\ \A k \in DOMAIN Writes :
                Writes[k].arg2 >= 0 /\ Writes[k].arg2 + Writes[k].arg <= ProbeFileSize
          /\ \A i \in Calls("io_submit") :
                trace[i].arg2 >= 0 /\ trace[i].arg2 + trace[i].arg <= ProbeFileSize)

(* What the code does: the resource bounds hold in every state; only       *)
(* termination in Done or Error fails, after a failed io_getevents.        *)
C20_ResourceBounds ==
    /\ Len(Writes) <= 4
    /\ Count("io_submit") <= 1
    /\ Cardinality(WaitsEnded) <= 1
    /\ \A k \in DOMAIN Writes :
          Writes[k].arg2 >= 0 /\ Writes[k].arg2 + Writes[k].arg <= ProbeFileSize
    /\ \A i \in Calls("io_submit") :
          trace[i].arg2 >= 0 /\ trace[i].arg2 + trace[i].arg <= ProbeFileSize

C20_TerminatesOrFaults ==
    <>(pc \in {"Done", "Error", "Abort"})

----------------------------------------------------------------------------
(* The probe variables while the probe is not running: the state the other *)
(* specifications keep them in.                                            *)
ProbeIdle ==
    /\ pc = "start" /\ probeDir = <<>> /\ rwfNowait = TRUE /\ fdOpen = FALSE /\ linked = FALSE
    /\ direct = 0 /\ async = FALSE /\ errmsg = <<>> /\ errno = 0 /\ rv = 0
    /\ ret = 0 /\ fpos = 0 /\ buf = NULL /\ nalloc = 0 /\ ctxLive = FALSE
    /\ paSize = 0 /\ eventRes = 0 /\ nEintr = 0 /\ trace = <<>>

----------------------------------------------------------------------------
(* heap.c: the allocator indirection.  A table is named; its `data` member *)
(* is HeapData.  The embedder installs tables and calls the API in any     *)
(* order; heapLog records each API call with the slot invocations it made. *)

(* Bound: the number of API calls in one run. *)
MaxHeapCalls == 3

CustomTables == {"T1", "T2"}

\* the data member: NULL for defaultHeap, a distinct context for each custom table
HeapData(h) == IF h = "defaultHeap" THEN NULL ELSE IF h = "T1" THEN 1 ELSE 2

\* currentHeap->slot(currentHeap->data, ...) with currentHeap = h
Slot(h, slot) == [table |-> h, slot |-> slot, data |-> HeapData(h)]

heapMalloc(h) == <<Slot(h, "malloc")>>

heapFree(h, ptr) == IF ptr = NULL THEN <<>> ELSE <<Slot(h, "free")>>

\* mutant: the zeroed allocation goes to the built-in table
heapCalloc_Default(h) == <<Slot("defaultHeap", "calloc")>>

heapCalloc(h) == <<Slot(h, "calloc")>>

heapRealloc(h) == <<Slot(h, "realloc")>>

\* the body of raft_aligned_alloc
heapAlignedAlloc(h) == <<Slot(h, "aligned_alloc")>>

\* the body of raft_aligned_free
heapAlignedFree(h) == <<Slot(h, "aligned_free")>>

LogCall(api, arg, inv) == [api |-> api, arg |-> arg, inv |-> inv]

HeapCall(api, arg, inv) ==
    /\ Len(heapLog) < MaxHeapCalls
    /\ heapLog' = Append(heapLog, LogCall(api, arg, inv))

raft_malloc ==
    /\ HeapCall("raft_malloc", 0, heapMalloc(currentHeap))
    /\ UNCHANGED <<pvars, currentHeap, out, ge>>

RaftFree ==
    /\ \E ptr \in {NULL, 1} : HeapCall("raft_free", ptr, heapFree(currentHeap, ptr))
    /\ UNCHANGED <<pvars, currentHeap, out, ge>>

raft_calloc ==
    /\ HeapCall("raft_calloc", 0, heapCalloc(currentHeap))
    /\ UNCHANGED <<pvars, currentHeap, out, ge>>

raft_realloc ==
    /\ HeapCall("raft_realloc", 0, heapRealloc(currentHeap))
    /\ UNCHANGED <<pvars, currentHeap, out, ge>>

RaftAlignedAlloc ==
    /\ HeapCall("raft_aligned_alloc", 0, heapAlignedAlloc(currentHeap))
    /\ UNCHANGED <<pvars, currentHeap, out, ge>>

RaftAlignedFree ==
    /\ HeapCall("raft_aligned_free", 1, heapAlignedFree(currentHeap))
    /\ UNCHANGED <<pvars, currentHeap, out, ge>>

raft_heap_set ==
    /\ \E heap \in CustomTables :
         /\ HeapCall("raft_heap_set", HeapData(heap), <<>>)
         /\ currentHeap' = heap
    /\ UNCHANGED <<pvars, out, ge>>

raft_heap_set_default ==
    /\ HeapCall("raft_heap_set_default", 0, <<>>)
    /\ currentHeap' = "defaultHeap"
    /\ UNCHANGED <<pvars, out, ge>>

InitHeap ==
    /\ ProbeIdle
    /\ currentHeap = "defaultHeap"
    /\ heapLog = <<>>
    /\ out = [fn |-> "none"]
    /\ ge = [pc |-> "idle"]

NextHeap ==
    \/ raft_malloc
    \/ RaftFree
    \/ raft_calloc
    \/ raft_realloc
    \/ RaftAlignedAlloc
    \/ RaftAlignedFree
    \/ raft_heap_set
    \/ raft_heap_set_default

SpecHeap == InitHeap /\ [][NextHeap]_vars

----------------------------------------------------------------------------
SetApis == {"raft_heap_set", "raft_heap_set_default"}

\* the slot each API function is meant to reach
SlotOf(api) ==
    CASE api = "raft_malloc" -> "malloc"
      [] api = "raft_free" -> "free"
      [] api = "raft_calloc" -> "calloc"
      [] api = "raft_realloc" -> "realloc"
      [] api = "raft_aligned_alloc" -> "aligned_alloc"
      [] api = "raft_aligned_free" -> "aligned_free"

\* the context value of the table the latest set/reset before call i installed
\* (NULL, the built-in table's, when there is none or it was a reset)
InstalledData(i) ==
    LET sets == {j \in 1..(i - 1) : heapLog[j].api \in SetApis} IN
    IF sets = {} THEN NULL
    ELSE LET j == CHOOSE k \in sets : \A l \in sets : l <= k IN
         IF heapLog[j].api = "raft_heap_set" THEN heapLog[j].arg ELSE NULL

(* C11: after raft_heap_set(T) every allocation API call invokes exactly   *)
(* one slot, the corresponding one of T with T's data (a free of NULL      *)
(* invokes none), and nothing reaches the built-in table until             *)
(* raft_heap_set_default or another raft_heap_set; after                   *)
(* raft_heap_set_default every call goes to the built-in table.            *)
C11_CallsRouteToInstalledTable ==
    \A i \in DOMAIN heapLog :
        LET c == heapLog[i] IN
        c.api \notin SetApis =>
            IF c.api = "raft_free" /\ c.arg = NULL
              THEN c.inv = <<>>
              ELSE /\ Len(c.inv) = 1
                   /\ c.inv[1].slot = SlotOf(c.api)
                   /\ c.inv[1].data = InstalledData(i)
                   /\ HeapData(c.inv[1].table) = InstalledData(i)
                   /\ (c.inv[1].table = "defaultHeap") <=> (InstalledData(i) = NULL)

C11_Witness ==
    /\ Len(heapLog) = 3
    /\ heapLog[1] = LogCall("raft_heap_set", 2, <<>>)
    /\ heapLog[2] = LogCall("raft_calloc", 0, <<Slot("T2", "calloc")>>)
    /\ heapLog[3].api = "raft_free" /\ heapLog[3].arg # NULL

C11_WitnessReset ==
    /\ Len(heapLog) = 3
    /\ heapLog[1].api = "raft_heap_set"
    /\ heapLog[2].api = "raft_heap_set_default"
    /\ heapLog[3] = LogCall("raft_aligned_alloc", 0, <<Slot("defaultHeap", "aligned_alloc")>>)

----------------------------------------------------------------------------
(* uv_os.c: the helpers called on their own: in one run the caller makes  *)
(* one call of UvOsJoin, uvReadFully or UvOsIoSubmit and one call of       *)
(* UvOsIoGetevents, in either order.  A path is a sequence of characters   *)
(* (a C string without its terminator).                                    *)

(* Bounds: the longest file name accepted (UV__FILENAME_LEN scaled down),   *)
(* the largest read requested, the largest number of requests submitted or *)
(* events waited for.                                                      *)
MaxFilenameLen == 2
MaxReadLen == 3
MaxNr == 2

UV__NODATA == 3

Chars == {"a", "/"}

Strings(n) == UNION {[1..k -> Chars] : k \in 0..n}

UV__FILENAME_HAS_VALID_LEN(filename) == Len(filename) <= MaxFilenameLen

\* mutant: the separator is not written
UvOsJoin_NoSeparator(dir, filename) == dir \o filename

\* strcpy(path, dir); strcat(path, "/"); strcat(path, filename)
UvOsJoin(dir, filename) == (dir \o <<"/">>) \o filename

\* UvOsJoin(dir, filename, path) with its two assertions
CallUvOsJoin ==
    /\ ge.pc # "calling"
    /\ out.fn = "none"
    /\ \E dir \in Strings(MaxDirLen + 1), filename \in Strings(MaxFilenameLen + 1) :
         out' = IF UV__DIR_HAS_VALID_LEN(dir) /\ UV__FILENAME_HAS_VALID_LEN(filename)
                  THEN [fn |-> "UvOsJoin", dir |-> dir, filename |-> filename,
                        fault |-> FALSE, path |-> UvOsJoin(dir, filename)]
                  ELSE [fn |-> "UvOsJoin", dir |-> dir, filename |-> filename,
                        fault |-> TRUE, path |-> <<>>]
    /\ UNCHANGED <<pvars, currentHeap, heapLog, ge>>

ReadErrnos == {EIO, EINTR}

\* errMsgPrintf("short read: %d bytes instead of %ld", rv, n)
ShortReadMsg(k, n) == [what |-> "short read", actual |-> k, requested |-> n]

\* mutant: a short read is followed by a second read of the remainder
uvReadFully_Retry(n, reads) ==
    IF reads[1] < 0
      THEN [ret |-> UV__ERROR, errmsg |-> <<Msg("read", reads[1])>>, nreads |-> 1]
    ELSE IF reads[1] >= n
      THEN [ret |-> 0, errmsg |-> <<>>, nreads |-> 1]
    ELSE IF reads[2] >= 0 /\ reads[1] + reads[2] >= n
      THEN [ret |-> 0, errmsg |-> <<>>, nreads |-> 2]
      ELSE [ret |-> UV__NODATA, errmsg |-> <<ShortReadMsg(reads[1], n)>>, nreads |-> 2]

\* uvReadFully(fd, buf, n, errmsg); reads[i] is what the i-th read(fd, buf, n)
\* would return: a byte count, or -e for -1 with errno e
uvReadFully(n, reads) ==
    IF reads[1] < 0
      THEN [ret |-> UV__ERROR, errmsg |-> <<Msg("read", reads[1])>>, nreads |-> 1]
    ELSE IF reads[1] < n
      THEN [ret |-> UV__NODATA, errmsg |-> <<ShortReadMsg(reads[1], n)>>, nreads |-> 1]
      ELSE [ret |-> 0, errmsg |-> <<>>, nreads |-> 1]

ReadResults(n) == (0..n) \cup {-e : e \in ReadErrnos}

CallUvReadFully ==
    /\ ge.pc # "calling"
    /\ out.fn = "none"
    /\ \E n \in 0..MaxReadLen :
         \E reads \in [1..2 -> ReadResults(n)] :
            out' = [fn |-> "uvReadFully", n |-> n, reads |-> reads,
                    res |-> uvReadFully(n, reads)]
    /\ UNCHANGED <<pvars, currentHeap, heapLog, ge>>

\* UvOsIoSubmit(ctx, nr, iocbpp); r is what io_submit returned: -e for
\* (-1, errno e), else the number of requests accepted
CallUvOsIoSubmit ==
    /\ ge.pc # "calling"
    /\ out.fn = "none"
    /\ \E nr \in 0..MaxNr :
         \E r \in (0..nr) \cup {-e : e \in IoSubmitErrnos} :
            out' = [fn |-> "UvOsIoSubmit", nr |-> nr, r |-> r,
                    fault |-> ~UvOsIoSubmitAssert(r, nr), ret |-> UvOsIoSubmit(r)]
    /\ UNCHANGED <<pvars, currentHeap, heapLog, ge>>

----------------------------------------------------------------------------
(* UvOsIoGetevents(ctx, min_nr, max_nr, events, timeout): one step per     *)
(* io_getevents call of its do-while loop.                                 *)

\* mutant: the loop does not repeat the call
GeRetry_Never(rv0, errno0) == FALSE

\* while (rv == -1 && errno == EINTR)
GeRetry(rv0, errno0) == rv0 = -1 /\ errno0 = EINTR

\* assert(rv >= min_nr); assert(rv <= max_nr)
GeAssert(rv0, min_nr, max_nr) == rv0 >= min_nr /\ rv0 <= max_nr

\* the caller enters UvOsIoGetevents; timeout is NULL (wait indefinitely) or
\* points to a duration
GeStart ==
    /\ ge.pc = "idle"
    /\ \E min_nr \in 0..MaxNr :
         \E max_nr \in 1..MaxNr :
           \E timeout \in {"NULL", "timespec"} :
            /\ min_nr <= max_nr
            /\ ge' = [pc |-> "calling", min_nr |-> min_nr, max_nr |-> max_nr,
                      timeout |-> timeout,
                      rv |-> 0, errno |-> 0, calls |-> 0, ret |-> 0]
    /\ UNCHANGED <<pvars, currentHeap, heapLog, out>>

\* what one io_getevents call may produce: an interruption before any event
\* was collected (at most MaxEintr in a row), another failure, or a number of
\* events: up to max_nr, at least 1 when it waits indefinitely (fewer than
\* min_nr when a signal ends the wait after some events were collected), 0
\* included when the timeout expires first
GeResults ==
    ((IF ge.timeout = "NULL" THEN (IF ge.min_nr = 0 THEN 0 ELSE 1) ELSE 0) .. ge.max_nr)
      \cup {-e : e \in IoGeteventsErrnos}
      \cup (IF ge.calls < MaxEintr THEN {-EINTR} ELSE {})

\* rv = io_getevents(...); the loop test; the return
GeCall ==
    /\ ge.pc = "calling"
    /\ \E r \in GeResults :
         LET rv0 == IF r < 0 THEN -1 ELSE r
             errno0 == IF r < 0 THEN -r ELSE ge.errno
         IN ge' = [ge EXCEPT
                     !.rv = rv0,
                     !.errno = errno0,
                     !.calls = @ + 1,
                     !.pc = IF GeRetry(rv0, errno0) THEN "calling"
                            ELSE IF rv0 = -1 \/ GeAssert(rv0, ge.min_nr, ge.max_nr)
                            THEN "returned" ELSE "abort",
                     !.ret = IF GeRetry(rv0, errno0) THEN @
                             ELSE IF rv0 = -1 THEN -errno0 ELSE rv0]
    /\ UNCHANGED <<pvars, currentHeap, heapLog, out>>

InitCalls ==
    /\ ProbeIdle
    /\ currentHeap = "defaultHeap"
    /\ heapLog = <<>>
    /\ out = [fn |-> "none"]
    /\ ge = [pc |-> "idle"]

NextCalls ==
    \/ CallUvOsJoin
    \/ CallUvReadFully
    \/ CallUvOsIoSubmit
    \/ GeStart
    \/ GeCall

SpecCalls == InitCalls /\ [][NextCalls]_vars

(* The calling thread keeps running and every io_getevents call returns.   *)
SpecCallsFair == SpecCalls /\ WF_vars(GeCall)

----------------------------------------------------------------------------
GeSafety ==
    /\ [](ge.pc = "returned" =>
            /\ ge.ret # -EINTR
            /\ \/ ge.rv = -1 /\ ge.ret = -ge.errno /\ ge.ret < 0
               \/ ge.rv = ge.ret /\ ge.min_nr <= ge.ret /\ ge.ret <= ge.max_nr)
    /\ [][(ge.pc = "calling" /\ ge' # ge) =>
            IF ge'.rv = -1 /\ ge'.errno = EINTR
              THEN ge'.pc = "calling" /\ ge'.calls = ge.calls + 1
              ELSE ge'.pc \in {"returned", "abort"}]_vars

(* C14: UvOsIoGetevents calls io_getevents again whenever it was           *)
(* interrupted (EINTR) and never returns -EINTR; it returns the negated    *)
(* errno of another failure, or a count n with min_nr <= n <= max_nr; and  *)
(* once the interruptions stop, the call returns.                          *)
C14_GeteventsRetriesEintr ==
    /\ GeSafety
    /\ (ge.pc = "calling") ~> (ge.pc = "returned")

(* C14, what the code does keep: the retry on EINTR, the shape of every    *)
(* returned value, and that the call ends: by returning, or, when the wait *)
(* ended with fewer than min_nr events (the timeout expired, or a signal   *)
(* arrived after some events were collected), in an assertion fault.       *)
C14_ReturnsOrFaults ==
    /\ GeSafety
    /\ [](ge.pc = "abort" =>
            /\ 0 <= ge.rv /\ ge.rv < ge.min_nr
            /\ ge.timeout = "NULL" => ge.rv >= 1)
    /\ (ge.pc = "calling") ~> (ge.pc \in {"returned", "abort"})

\* the timeout expired with no event although one was asked for
C14_TimeoutFault ==
    /\ ge.pc = "abort" /\ ge.timeout = "timespec" /\ ge.min_nr = 1 /\ ge.rv = 0

\* a signal ended an indefinite wait for two events after one was collected
C14_SignalFault ==
    /\ ge.pc = "abort" /\ ge.timeout = "NULL" /\ ge.min_nr = 2 /\ ge.rv = 1

C14_Witness ==
    /\ ge.pc = "returned" /\ ge.calls = 3 /\ ge.ret = 2 /\ ge.min_nr = 1
    /\ ge.errno = EINTR

C14_WitnessError ==
    /\ ge.pc = "returned" /\ ge.calls = 2 /\ ge.ret = -EINVAL

----------------------------------------------------------------------------
(* C15: uvReadFully issues exactly one read; it returns 0 only if that     *)
(* read returned n bytes; k < n bytes (0 included) give UV__NODATA with a  *)
(* message carrying k and n; a failed read gives UV__ERROR; a short read   *)
(* is never retried, whatever a second read would have returned.           *)
C15_ReadFullyOneRead ==
    out.fn = "uvReadFully" =>
        LET k == out.reads[1] IN
        /\ out.res.nreads = 1
        /\ (out.res.ret = 0) <=> (k = out.n)
        /\ (0 <= k /\ k < out.n) =>
              /\ out.res.ret = UV__NODATA
              /\ Len(out.res.errmsg) = 1
              /\ out.res.errmsg[1].what = "short read"
              /\ out.res.errmsg[1].actual = k
              /\ out.res.errmsg[1].requested = out.n
        /\ k < 0 => (out.res.ret = UV__ERROR /\ out.res.errmsg = <<Msg("read", k)>>)
        /\ out.res.ret = 0 => out.res.errmsg = <<>>

C15_Witness ==
    /\ out.fn = "uvReadFully" /\ out.n = 3 /\ out.reads[1] = 2 /\ out.reads[2] = 1
    /\ out.res.ret = UV__NODATA

C15_WitnessFull ==
    /\ out.fn = "uvReadFully" /\ out.n = 3 /\ out.reads[1] = 3 /\ out.res.ret = 0

C15_WitnessError ==
    /\ out.fn = "uvReadFully" /\ out.reads[1] = -EIO /\ out.res.ret = UV__ERROR

----------------------------------------------------------------------------
\* the positions of "/" in a path
Slashes(path) == {i \in DOMAIN path : path[i] = "/"}

\* a path split on its last "/": <<what precedes it, what follows it>>
SplitLast(path) ==
    LET i == CHOOSE k \in Slashes(path) : \A l \in Slashes(path) : l <= k IN
    <<SubSeq(path, 1, i - 1), SubSeq(path, i + 1, Len(path))>>

JoinDone == out.fn = "UvOsJoin" /\ ~out.fault

(* C16, as claimed: for any dir and filename within the length limits,     *)
(* UvOsJoin produces dir, "/", filename, and splitting the result on its   *)
(* last "/" recovers dir and filename.                                     *)
C16_Original_JoinSplitRoundTrip ==
    JoinDone =>
        /\ out.path = (out.dir \o <<"/">>) \o out.filename
        /\ SplitLast(out.path) = <<out.dir, out.filename>>

(* C16, amended: UvOsJoin produces dir, "/", filename for any inputs       *)
(* within the length limits (longer ones trip an assertion); splitting on  *)
(* the last "/" recovers dir and filename exactly when filename contains   *)
(* no "/".                                                                 *)
C16_JoinSplitWhenNoSlashInFilename ==
    /\ JoinDone =>
         /\ Len(out.dir) <= MaxDirLen /\ Len(out.filename) <= MaxFilenameLen
         /\ Len(out.path) = Len(out.dir) + 1 + Len(out.filename)
         /\ SubSeq(out.path, 1, Len(out.dir)) = out.dir
         /\ out.path[Len(out.dir) + 1] = "/"
         /\ SubSeq(out.path, Len(out.dir) + 2, Len(out.path)) = out.filename
         /\ (SplitLast(out.path) = <<out.dir, out.filename>>)
               <=> (Slashes(out.filename) = {})
    /\ (out.fn = "UvOsJoin" /\ out.fault) =>
         (Len(out.dir) > MaxDirLen \/ Len(out.filename) > MaxFilenameLen)

C16_Witness ==
    /\ JoinDone /\ out.dir = <<"/", "a">> /\ out.filename = <<"a", "a">>
    /\ SplitLast(out.path) = <<out.dir, out.filename>>

C16_WitnessSlashInFilename ==
    /\ JoinDone /\ out.dir = <<"a">> /\ out.filename = <<"a", "/">>
    /\ SplitLast(out.path) = <<<<"a", "/", "a">>, <<>>>>

----------------------------------------------------------------------------
(* C17: UvOsIoSubmit returns the negated errno when io_submit fails and 0  *)
(* otherwise; a return of 0 implies exactly nr requests were accepted; an  *)
(* accept count other than nr is an assertion fault, never a return value. *)
C17_SubmitAllOrFault ==
    out.fn = "UvOsIoSubmit" =>
        /\ out.fault <=> (out.r >= 0 /\ out.r # out.nr)
        /\ ~out.fault =>
              /\ out.r < 0 => (out.ret = out.r /\ out.ret < 0)
              /\ out.r >= 0 => out.ret = 0
              /\ out.ret = 0 => out.r = out.nr
              /\ out.ret \in {0} \cup {-e : e \in IoSubmitErrnos}

C17_Witness ==
    /\ out.fn = "UvOsIoSubmit" /\ out.nr = 2 /\ out.r = 1 /\ out.fault

C17_WitnessAccepted ==
    /\ out.fn = "UvOsIoSubmit" /\ out.nr = 2 /\ out.r = 2 /\ ~out.fault /\ out.ret = 0

C17_WitnessFailed ==
    /\ out.fn = "UvOsIoSubmit" /\ out.r = -EAGAIN /\ ~out.fault /\ out.ret = -EAGAIN

====
